---- MODULE Spec2Model ----
(***************************************************************************)
(* Model of challenge-5/app.py: the Streamlit front end of the claims      *)
(* processing API.  It covers the two API client operations, the result    *)
(* formatting done by severity_pill and display_results, and the script    *)
(* main() seen as a state machine driven by the user's interactions.       *)
(*                                                                         *)
(* Python strings are sequences of one-character strings, so that lower(), *)
(* strip(), endswith() and number formatting are computed, not assumed.    *)
(* JSON values are tagged records; a JSON object is a function whose       *)
(* domain is the set of keys that are present.                             *)
(***************************************************************************)
EXTENDS Integers, Sequences, FiniteSets, TLC

(***************************************************************************)
(* Bounds of the model.                                                    *)
(***************************************************************************)
\* largest number of blanks put on either side of a severity word
MaxPad == 2
\* longest affected_areas list
MaxAreas == 3

(***************************************************************************)
(* Python strings.                                                         *)
(***************************************************************************)
UpperLetters == <<"A","B","C","D","E","F","G","H","I","J","K","L","M",
                  "N","O","P","Q","R","S","T","U","V","W","X","Y","Z">>

LowerLetters == <<"a","b","c","d","e","f","g","h","i","j","k","l","m",
                  "n","o","p","q","r","s","t","u","v","w","x","y","z">>

Whitespace == {" ", "\t", "\n"}

LowerChar(c) ==
    IF \E i \in 1..26 : UpperLetters[i] = c
    THEN LowerLetters[CHOOSE i \in 1..26 : UpperLetters[i] = c]
    ELSE c

UpperChar(c) ==
    IF \E i \in 1..26 : LowerLetters[i] = c
    THEN UpperLetters[CHOOSE i \in 1..26 : LowerLetters[i] = c]
    ELSE c

\* str.lower()
Lower(s) == [i \in 1..Len(s) |-> LowerChar(s[i])]

\* str.upper(), used only to build inputs
Upper(s) == [i \in 1..Len(s) |-> UpperChar(s[i])]

\* str.strip(): drops the leading and trailing whitespace
Strip(s) ==
    LET keep == {i \in 1..Len(s) : s[i] \notin Whitespace}
    IN  IF keep = {} THEN <<>>
        ELSE LET lo == CHOOSE i \in keep : \A j \in keep : i <= j
                 hi == CHOOSE i \in keep : \A j \in keep : i >= j
             IN  SubSeq(s, lo, hi)

\* str.endswith(suffix)
EndsWith(s, suffix) ==
    /\ Len(s) >= Len(suffix)
    /\ SubSeq(s, Len(s) - Len(suffix) + 1, Len(s)) = suffix

Blanks(n) == [i \in 1..n |-> " "]

NA == <<"N","/","A">>

NoneText == <<"N","o","n","e">>

TrueText == <<"T","r","u","e">>

FalseText == <<"F","a","l","s","e">>

(***************************************************************************)
(* JSON values as Python holds them after r.json().                        *)
(***************************************************************************)
JNull == [t |-> "null"]

JBool(b) == [t |-> "bool", b |-> b]

JInt(n) == [t |-> "int", n |-> n]

\* a float with at most two decimal places, kept as a count of hundredths
JFloat(c) == [t |-> "float", c |-> c]

JStr(s) == [t |-> "str", s |-> s]

JList(l) == [t |-> "list", l |-> l]

JObj(o) == [t |-> "obj", o |-> o]

EmptyMap == [k \in {} |-> JNull]

EmptyObj == JObj(EmptyMap)

\* marks a key left out of an object under construction (never a value)
Absent == [t |-> "absent"]

\* the object holding the keys of f that are not Absent
MkObj(f) == JObj([k \in {x \in DOMAIN f : f[x] # Absent} |-> f[k]])

\* Python truth value of a JSON value
Truthy(v) ==
    CASE v.t = "null"  -> FALSE
      [] v.t = "bool"  -> v.b
      [] v.t = "int"   -> v.n # 0
      [] v.t = "float" -> v.c # 0
      [] v.t = "str"   -> v.s # <<>>
      [] v.t = "list"  -> v.l # <<>>
      [] v.t = "obj"   -> DOMAIN v.o # {}

\* dict.get(k, d) on the mapping of an object
Get(o, k, d) == IF k \in DOMAIN o THEN o[k] ELSE d

\* x or y
Or(x, y) == IF Truthy(x) THEN x ELSE y

\* isinstance(v, (int, float)): bool is a subclass of int
IsIntOrFloat(v) == v.t \in {"int", "float", "bool"}

\* isinstance(v, list)
IsList(v) == v.t = "list"

(***************************************************************************)
(* Number formatting.                                                      *)
(***************************************************************************)
DigitChars == <<"0","1","2","3","4","5","6","7","8","9">>

RECURSIVE Digits(_)
Digits(n) == IF n < 10 THEN <<DigitChars[n + 1]>>
             ELSE Digits(n \div 10) \o <<DigitChars[(n % 10) + 1]>>

Abs(n) == IF n < 0 THEN -n ELSE n

Sign(n) == IF n < 0 THEN <<"-">> ELSE <<>>

\* three digits, zero padded
Pad3(n) == <<DigitChars[(n \div 100) + 1], DigitChars[((n \div 10) % 10) + 1],
             DigitChars[(n % 10) + 1]>>

\* the "," option of the format mini-language on a natural number
RECURSIVE Grouped(_)
Grouped(n) == IF n < 1000 THEN Digits(n)
              ELSE Grouped(n \div 1000) \o <<",">> \o Pad3(n % 1000)

\* the number of hundredths a numeric value stands for (True is 1, False 0)
Hundredths(v) ==
    CASE v.t = "int"   -> v.n * 100
      [] v.t = "float" -> v.c
      [] v.t = "bool"  -> IF v.b THEN 100 ELSE 0

\* format(v, ",.2f")
FormatCommaTwo(v) ==
    LET h == Hundredths(v)
        a == Abs(h)
    IN  Sign(h) \o Grouped(a \div 100) \o <<".">>
          \o <<DigitChars[((a % 100) \div 10) + 1], DigitChars[(a % 10) + 1]>>

\* str(v), as an f-string or str() renders a scalar
PyStr(v) ==
    CASE v.t = "null"  -> NoneText
      [] v.t = "bool"  -> IF v.b THEN TrueText ELSE FalseText
      [] v.t = "int"   -> Sign(v.n) \o Digits(Abs(v.n))
      [] v.t = "float" -> Sign(v.c) \o Digits(Abs(v.c) \div 100) \o <<".">>
                            \o (IF Abs(v.c) % 10 = 0
                                THEN <<DigitChars[((Abs(v.c) % 100) \div 10) + 1]>>
                                ELSE <<DigitChars[((Abs(v.c) % 100) \div 10) + 1],
                                       DigitChars[(Abs(v.c) % 10) + 1]>>)
      [] v.t = "str"   -> v.s

(***************************************************************************)
(* Result formatter: severity_pill and display_results.                    *)
(***************************************************************************)
HighWords == { <<"s","e","v","e","r","e">>, <<"c","r","i","t","i","c","a","l">>,
               <<"h","i","g","h">>,
               <<"s","i","g","n","i","f","i","c","a","n","t">> }

MediumWords == { <<"m","o","d","e","r","a","t","e">>, <<"m","e","d","i","u","m">> }

LowWords == { <<"m","i","n","o","r">>, <<"l","o","w">> }

HighLabel == <<"H","i","g","h">>

MediumLabel == <<"M","e","d","i","u","m">>

LowLabel == <<"L","o","w">>

\* severity_pill with the .strip() left out
severity_pill_unstripped(severity) ==
    LET s == Lower(Or(severity, JStr(<<>>)).s)
    IN  IF s \in HighWords THEN [tier |-> "pill-bad", label |-> HighLabel]
        ELSE IF s \in MediumWords THEN [tier |-> "pill-warn", label |-> MediumLabel]
        ELSE IF s \in LowWords THEN [tier |-> "pill-ok", label |-> LowLabel]
        ELSE [tier |-> "pill-neutral", label |-> Or(severity, JStr(NA)).s]

\* severity_pill(severity): the pill's CSS class and its text; severity is a
\* str or None
severity_pill(severity) ==
    LET s == Lower(Strip(Or(severity, JStr(<<>>)).s))
    IN  IF s \in HighWords THEN [tier |-> "pill-bad", label |-> HighLabel]
        ELSE IF s \in MediumWords THEN [tier |-> "pill-warn", label |-> MediumLabel]
        ELSE IF s \in LowWords THEN [tier |-> "pill-ok", label |-> LowLabel]
        ELSE [tier |-> "pill-neutral", label |-> Or(severity, JStr(NA)).s]

\* data.get(key, {}) or {}
Section(data, key) == Or(Get(data.o, key, EmptyObj), EmptyObj)

\* the estimated-cost cell
CostCell(est) ==
    IF IsIntOrFloat(est) THEN <<"$">> \o FormatCommaTwo(est)
    ELSE IF est # JNull THEN PyStr(est)
    ELSE NA

\* damage.get("affected_areas", []) without the trailing "or []"
AreasOfGetOnly(damage) == Get(damage.o, "affected_areas", JList(<<>>))

\* damage.get("affected_areas", []) or []
AreasOf(damage) == Or(Get(damage.o, "affected_areas", JList(<<>>)), JList(<<>>))

\* the affected-areas cell: a count, or the text N/A
AreasCell(areas) == IF IsList(areas) THEN JInt(Len(areas.l)) ELSE JStr(NA)

\* the "Vehicle" metric
VehicleMetric(vehicle) ==
    LET text == Strip(PyStr(Get(vehicle.o, "make", JStr(<<>>))) \o <<" ">>
                        \o PyStr(Get(vehicle.o, "model", JStr(<<>>))))
    IN  IF text # <<>> THEN text ELSE NA

NothingRendered == [rendered |-> FALSE, fault |-> FALSE]

RenderFault == [rendered |-> FALSE, fault |-> TRUE]

\* display_results(data).  Cells written with an f-string hold text; the
\* values handed to st.metric and st.write are kept as values.  A data value
\* or a section that is true but not a dict makes .get raise AttributeError.
display_results(data) ==
    IF ~Truthy(data) THEN NothingRendered
    ELSE IF data.t # "obj" THEN RenderFault
    ELSE
      LET vehicle  == Section(data, "vehicle_info")
          damage   == Section(data, "damage_assessment")
          incident == Section(data, "incident_info")
          meta     == Section(data, "metadata")
      IN  IF \E sec \in {vehicle, damage, incident, meta} : sec.t # "obj"
          THEN RenderFault
          ELSE
            LET sev   == Get(damage.o, "severity", JStr(NA))
                est   == Get(damage.o, "estimated_cost", JNull)
                areas == AreasOf(damage)
            IN  [ rendered |-> TRUE, fault |-> FALSE,
                  metric_vehicle  |-> VehicleMetric(vehicle),
                  metric_year     |-> Get(vehicle.o, "year", JStr(NA)),
                  metric_ocr      |-> Get(meta.o, "ocr_characters", JStr(NA)),
                  metric_workflow |-> Get(meta.o, "workflow", JStr(NA)),
                  make     |-> PyStr(Get(vehicle.o, "make", JStr(NA))),
                  model    |-> PyStr(Get(vehicle.o, "model", JStr(NA))),
                  color    |-> PyStr(Get(vehicle.o, "color", JStr(NA))),
                  year     |-> PyStr(Get(vehicle.o, "year", JStr(NA))),
                  date     |-> PyStr(Get(incident.o, "date", JStr(NA))),
                  location |-> PyStr(Get(incident.o, "location", JStr(NA))),
                  description |-> Get(incident.o, "description", JStr(NA)),
                  severity |-> severity_pill(JStr(PyStr(sev))),
                  cost     |-> CostCell(est),
                  areas_count |-> AreasCell(areas),
                  areas_listed |-> IF IsList(areas) /\ Truthy(areas)
                                   THEN areas.l ELSE <<>>,
                  source_image |-> PyStr(Get(meta.o, "source_image", JStr(NA))) ]

(***************************************************************************)
(* API client: check_health and process_claim.                             *)
(***************************************************************************)
StatusCodes == {200, 201, 204, 302, 404, 500}

\* Response.is_success, the test made by raise_for_status()
IsSuccess(code) == 200 <= code /\ code <= 299

\* exception classes that "except Exception" handles: everything the HTTP
\* call can raise derives from Exception
ConnectError == "httpx.ConnectError"

ReadTimeout == "httpx.ReadTimeout"

HTTPStatusError == "httpx.HTTPStatusError"

JSONDecodeError == "json.JSONDecodeError"

ExceptionClasses == {ConnectError, ReadTimeout, HTTPStatusError, JSONDecodeError}

\* a handler written as "except httpx.HTTPError"
CaughtHttpOnly(exc) == exc \in {ConnectError, ReadTimeout, HTTPStatusError}

Caught(exc) == exc \in ExceptionClasses

\* the value a call evaluates to, or the exception that leaves it
Returned(v) == [raised |-> FALSE, value |-> v]

Raised(exc) == [raised |-> TRUE, exc |-> exc]

\* the body of the try block: client.get/post, raise_for_status(), r.json()
TryRequest(outcome) ==
    CASE outcome.kind = "connect_error" -> Raised(ConnectError)
      [] outcome.kind = "timeout"       -> Raised(ReadTimeout)
      [] outcome.kind = "response" ->
           IF ~IsSuccess(outcome.code) THEN Raised(HTTPStatusError)
           ELSE IF outcome.body = "unparseable" THEN Raised(JSONDecodeError)
           ELSE Returned(outcome.json)

\* str(e)
ErrorText(exc) ==
    CASE exc = ConnectError    -> <<"c","o","n","n","e","c","t">>
      [] exc = ReadTimeout     -> <<"t","i","m","e","d"," ","o","u","t">>
      [] exc = HTTPStatusError -> <<"b","a","d"," ","s","t","a","t","u","s">>
      [] exc = JSONDecodeError -> <<"E","x","p","e","c","t","i","n","g">>

check_health(outcome) ==
    LET r == TryRequest(outcome)
    IN  IF r.raised /\ Caught(r.exc)
        THEN Returned(JObj([status |-> JStr(<<"e","r","r","o","r">>),
                            error |-> JStr(ErrorText(r.exc))]))
        ELSE r

process_claim(outcome) ==
    LET r == TryRequest(outcome)
    IN  IF r.raised /\ Caught(r.exc)
        THEN Returned(JObj([success |-> JBool(FALSE),
                            error |-> JStr(ErrorText(r.exc))]))
        ELSE r

(***************************************************************************)
(* The script main() as a state machine.  Streamlit runs the script once   *)
(* per interaction; the locals of a run (the health result, the claim      *)
(* result, what was drawn) do not survive into the next run, the widget    *)
(* state (the selected file, session_state.api_url) does.                  *)
(***************************************************************************)
VARIABLES
    uploaded,    \* the file held by st.file_uploader, or NoFile
    api_url,     \* st.session_state.api_url
    pc,          \* where the current script run stands
    status,      \* what the st.status container of the run shows
    mime,        \* the local mime of the run
    posted,      \* the POST issued by the run, or NoPost
    outcome,     \* what the HTTP call of the run met
    health,      \* what check_health returned in the run
    healthView,  \* the sidebar pill and captions drawn by the run
    result,      \* what process_claim returned in the run
    view,        \* the results area drawn by the run
    fault,       \* an exception left the script in the run
    lastHealth,  \* history: the pill of the most recent health check
    fmtMode,     \* formatter runs: which function is exercised
    fmtIn,       \* formatter runs: its argument
    fmtOut       \* formatter runs: its result

uiVars == <<uploaded, api_url, pc, status, mime, posted, outcome, health,
            healthView, result, view, fault, lastHealth>>

fmtVars == <<fmtMode, fmtIn, fmtOut>>

vars == <<uploaded, api_url, pc, status, mime, posted, outcome, health,
          healthView, result, view, fault, lastHealth, fmtMode, fmtIn, fmtOut>>

NoFile == [name |-> <<>>, bytes |-> "none"]

NoPost == [url |-> <<>>, filename |-> <<>>, bytes |-> "none", mime |-> "none"]

NoOutcome == [kind |-> "none"]

NoValue == [raised |-> FALSE, value |-> Absent]

NoView == [pill |-> "none"]

NotRun == [rendered |-> FALSE, fault |-> FALSE, run |-> FALSE]

(***************************************************************************)
(* Inputs.                                                                 *)
(***************************************************************************)
DotPng == <<".","p","n","g">>

DotJpg == <<".","j","p","g">>

DotJpeg == <<".","j","p","e","g">>

\* the extensions st.file_uploader(type=["jpg","jpeg","png"]) lets through
Extensions == {DotPng, Upper(DotPng), <<".","P","n","g">>, DotJpg, Upper(DotJpg),
               DotJpeg}

BaseNames == { <<"a">>, <<"A",".","p","n","g">> }

FileContents == {"png-bytes", "jpeg-bytes"}

Files == {[name |-> b \o e, bytes |-> c] :
             b \in BaseNames, e \in Extensions, c \in FileContents}

DefaultUrl == <<"h">>

\* what the user may type into the API URL field
UrlInputs == { <<"h">>, <<" ","l","/","/"," ">>, <<"l","/">> }

\* str.rstrip("/")
RECURSIVE RStripSlash(_)
RStripSlash(s) == IF s # <<>> /\ s[Len(s)] = "/"
                  THEN RStripSlash(SubSeq(s, 1, Len(s) - 1))
                  ELSE s

Toyota == <<"T","o","y","o","t","a">>

Camry == <<"C","a","m","r","y">>

Severe == <<"s","e","v","e","r","e">>

Hood == <<"h","o","o","d">>

OcrFailed == <<"O","C","R"," ","f","a","i","l","e","d">>

UnknownError == <<"U","n","k","n","o","w","n"," ","e","r","r","o","r">>

Healthy == <<"h","e","a","l","t","h","y">>

ErrorWord == <<"e","r","r","o","r">>

\* the data payload of scenario C
SampleData ==
    JObj([vehicle_info |-> JObj([make |-> JStr(Toyota), model |-> JStr(Camry),
                                 year |-> JInt(2020)]),
          damage_assessment |-> JObj([severity |-> JStr(Severe),
                                      estimated_cost |-> JFloat(450000),
                                      affected_areas |-> JList(<<JStr(Hood), JStr(Hood)>>)])])

\* bodies of the submit endpoint: objects of every shape of the three keys,
\* and values that are not objects
SuccessValues == {Absent, JBool(TRUE), JBool(FALSE), JNull, JStr(<<"n","o">>), JInt(0)}

DataValues == {Absent, SampleData, JNull, JList(<<JStr(Hood)>>)}

ErrorValues == {Absent, JStr(OcrFailed), JNull}

ClaimBodies ==
    {MkObj([success |-> s, data |-> d, error |-> e]) :
        s \in SuccessValues, d \in DataValues, e \in ErrorValues}
    \cup {JList(<<>>), JNull, JStr(Hood)}

HealthBodies ==
    { JObj([status |-> JStr(Healthy), service |-> JStr(<<"x">>),
            version |-> JStr(<<"1",".","0">>)]),
      JObj([status |-> JStr(Healthy)]),
      JObj([status |-> JStr(<<"d","o","w","n">>)]),
      JObj([status |-> JStr(ErrorWord), error |-> JNull]),
      EmptyObj, JList(<<>>), JNull }

Response(code, body, json) == [kind |-> "response", code |-> code, body |-> body, json |-> json]

\* every outcome of one HTTP call whose 2xx bodies are drawn from bodies
Outcomes(bodies) ==
    {[kind |-> "connect_error"], [kind |-> "timeout"]}
    \cup {Response(c, "unparseable", JNull) : c \in StatusCodes}
    \cup {Response(c, "json", j) : c \in {200}, j \in bodies}
    \cup {Response(c, "json", j) : c \in StatusCodes \ {200},
                                   j \in {b \in bodies : b.t = "obj" /\ Truthy(b)
                                            /\ \A k \in DOMAIN b.o : Truthy(b.o[k])}}

(***************************************************************************)
(* Formatter inputs.                                                       *)
(***************************************************************************)
Capitalized(w) == [i \in 1..Len(w) |-> IF i = 1 THEN UpperChar(w[i]) ELSE w[i]]

Alternating(w) == [i \in 1..Len(w) |-> IF i % 2 = 0 THEN UpperChar(w[i]) ELSE w[i]]

CaseVariants(w) == {w, Upper(w), Capitalized(w), Alternating(w)}

OtherWords == { <<>>, <<"u","n","k","n","o","w","n">>, <<"n","o","n","e">>,
                <<"l","o","w","e","s","t">>, <<"h","i","g">>,
                <<"s","e"," ","v","e","r","e">>, <<"n","/","a">> }

SeverityWords == HighWords \cup MediumWords \cup LowWords \cup OtherWords

SeverityInputs ==
    {JNull}
    \cup {JStr(Blanks(l) \o v \o Blanks(r)) :
             l \in 0..MaxPad, r \in 0..MaxPad,
             v \in UNION {CaseVariants(w) : w \in SeverityWords}}
    \cup {JStr(<<"\t">> \o w \o <<"\n">>) : w \in SeverityWords}

ScalarValues == {Absent, JNull, JStr(Toyota), JStr(<<>>), JInt(2020)}

SeverityValues == {Absent, JNull, JStr(Severe), JStr(<<" ","L","o","w"," ">>),
                   JStr(<<"u","n","k","n","o","w","n">>), JStr(<<>>)}

Pending == <<"p","e","n","d","i","n","g">>

CostValues ==
    {Absent, JNull, JStr(Pending), JStr(<<>>), JBool(TRUE), JBool(FALSE)}
    \cup {JInt(n) : n \in {0, 7, 999, 1000, 4500, 1234567, -1234}}
    \cup {JFloat(c) : c \in {123450, 5, 99999999, -50, 450000}}

AreasValues ==
    {Absent, JNull, JStr(Hood), JStr(<<>>), JInt(2), JInt(0), JFloat(0),
     JBool(TRUE), JBool(FALSE), JObj([front |-> JStr(Hood)]), EmptyObj}
    \cup {JList([i \in 1..n |-> JStr(Hood)]) : n \in 0..MaxAreas}

DataOf(key, section) == MkObj([k \in {key} |-> section])

VehicleInputs ==
    {DataOf("vehicle_info", MkObj([make |-> a, model |-> b, color |-> c, year |-> d])) :
        a \in ScalarValues, b \in ScalarValues, c \in ScalarValues, d \in ScalarValues}

IncidentInputs ==
    {DataOf("incident_info", MkObj([date |-> a, location |-> b, description |-> c])) :
        a \in ScalarValues, b \in ScalarValues, c \in ScalarValues}

MetaInputs ==
    {DataOf("metadata", MkObj([ocr_characters |-> a, workflow |-> b, source_image |-> c])) :
        a \in ScalarValues, b \in ScalarValues, c \in ScalarValues}

DamageInputs ==
    {DataOf("damage_assessment",
            MkObj([severity |-> a, estimated_cost |-> b, affected_areas |-> c])) :
        a \in SeverityValues, b \in CostValues, c \in AreasValues}

ShapeInputs ==
    {JNull, EmptyObj, JList(<<>>), JList(<<JStr(Hood)>>), JStr(Hood), SampleData}
    \cup {DataOf(k, v) :
             k \in {"vehicle_info", "damage_assessment", "incident_info", "metadata"},
             v \in {JNull, JStr(Hood), JList(<<>>), JList(<<JStr(Hood)>>), JInt(0)}}

DisplayInputs == VehicleInputs \cup IncidentInputs \cup MetaInputs
                   \cup DamageInputs \cup ShapeInputs

(***************************************************************************)
(* Initial state: the script has drawn the page once, nothing selected.    *)
(***************************************************************************)
UiInit ==
    /\ uploaded = NoFile
    /\ api_url = RStripSlash(DefaultUrl)
    /\ pc = "ready"
    /\ status = "Idle"
    /\ mime = "none"
    /\ posted = NoPost
    /\ outcome = NoOutcome
    /\ health = NoValue
    /\ healthView = NoView
    /\ result = NoValue
    /\ view = NoView
    /\ fault = FALSE
    /\ lastHealth = "none"

Init ==
    /\ UiInit
    /\ fmtMode = "off"
    /\ fmtIn = JNull
    /\ fmtOut = NotRun

(***************************************************************************)
(* Script runs.                                                            *)
(***************************************************************************)
\* no script run is in progress: the page waits for an interaction
AtRest == pc \in {"ready", "done"}

\* the truth value of the uploader's return value taken as always true
IsSelectedAlways(u) == TRUE

\* truth value of the uploader's return value: None, or an UploadedFile
IsSelected(u) == u # NoFile

\* disabled=not uploaded
ButtonEnabled(u) == IsSelected(u)

\* if process_btn and uploaded
ShouldProcess(process_btn, u) == process_btn /\ IsSelected(u)

\* a run starts: the locals and the drawn elements of the previous run are gone
NewRun ==
    /\ status' = "Idle"
    /\ mime' = "none"
    /\ posted' = NoPost
    /\ outcome' = NoOutcome
    /\ health' = NoValue
    /\ healthView' = NoView
    /\ result' = NoValue
    /\ view' = NoView
    /\ fault' = FALSE

\* the suffix test made on the name as given, without .lower()
MimeOfCaseSensitive(name) == IF EndsWith(name, DotPng) THEN "image/png" ELSE "image/jpeg"

\* the name decides the mime type
MimeOf(name) == IF EndsWith(Lower(name), DotPng) THEN "image/png" ELSE "image/jpeg"

\* the state in which st.status leaves the container when an exception ends
\* its with block: the script does not set it
StatusAfterFault == {"AwaitingResponse", "Failed"}

\* the sidebar drawn from the value of check_health
HealthViewOf(h) ==
    IF Get(h.o, "status", JNull) = JStr(Healthy)
    THEN [pill |-> "Healthy",
          caption |-> Get(h.o, "service", JStr(<<>>)),
          version |-> Get(h.o, "version", JStr(<<>>))]
    ELSE [pill |-> "Unreachable",
          caption |-> Get(h.o, "error", JStr(UnknownError)),
          version |-> Absent]

\* the results area when only an explicit false counts as a failure
ResultViewOfNotFalse(r) ==
    IF Get(r.o, "success", JNull) # JBool(FALSE)
    THEN LET panels == display_results(Get(r.o, "data", EmptyObj))
         IN  [pill |-> "Success", message |-> Absent, panels |-> panels,
              raw |-> ~panels.fault]
    ELSE [pill |-> "Error", message |-> Get(r.o, "error", JStr(UnknownError)),
          panels |-> NotRun, raw |-> FALSE]

\* the results area drawn from the value of process_claim
ResultViewOf(r) ==
    IF Truthy(Get(r.o, "success", JNull))
    THEN LET panels == display_results(Get(r.o, "data", EmptyObj))
         IN  [pill |-> "Success", message |-> Absent, panels |-> panels,
              raw |-> ~panels.fault]
    ELSE [pill |-> "Error", message |-> Get(r.o, "error", JStr(UnknownError)),
          panels |-> NotRun, raw |-> FALSE]

SelectFile(f) ==
    /\ AtRest
    /\ f # uploaded
    /\ uploaded' = f
    /\ pc' = "ready"
    /\ NewRun
    /\ UNCHANGED <<api_url, lastHealth, fmtVars>>

RemoveFile ==
    /\ AtRest
    /\ uploaded # NoFile
    /\ uploaded' = NoFile
    /\ pc' = "ready"
    /\ NewRun
    /\ UNCHANGED <<api_url, lastHealth, fmtVars>>

EditUrl(text) ==
    /\ AtRest
    /\ api_url' = RStripSlash(Strip(text))
    /\ api_url' # api_url
    /\ pc' = "ready"
    /\ NewRun
    /\ UNCHANGED <<uploaded, lastHealth, fmtVars>>

CheckHealth(o) ==
    /\ AtRest
    /\ pc' = "ready"
    /\ outcome' = o
    /\ health' = check_health(o)
    /\ IF health'.raised \/ health'.value.t # "obj"
       THEN /\ fault' = TRUE
            /\ healthView' = NoView
            /\ lastHealth' = "fault"
       ELSE /\ fault' = FALSE
            /\ healthView' = HealthViewOf(health'.value)
            /\ lastHealth' = healthView'.pill
    /\ status' = "Idle"
    /\ mime' = "none"
    /\ posted' = NoPost
    /\ result' = NoValue
    /\ view' = NoView
    /\ UNCHANGED <<uploaded, api_url, fmtVars>>

ClickProcess ==
    /\ AtRest
    /\ ButtonEnabled(uploaded)
    /\ NewRun
    /\ pc' = IF ShouldProcess(TRUE, uploaded) THEN "created" ELSE "ready"
    /\ UNCHANGED <<uploaded, api_url, lastHealth, fmtVars>>

BeginUpload ==
    /\ pc = "created"
    /\ status' = "Uploading"
    /\ pc' = "uploading"
    /\ UNCHANGED <<uploaded, api_url, mime, posted, outcome, health, healthView,
                   result, view, fault, lastHealth, fmtVars>>

\* InferMime without the status.write that announces the call
InferMimeSilent ==
    /\ pc = "uploading"
    /\ mime' = MimeOf(uploaded.name)
    /\ status' = status
    /\ pc' = "awaiting"
    /\ UNCHANGED <<uploaded, api_url, posted, outcome, health, healthView,
                   result, view, fault, lastHealth, fmtVars>>

InferMime ==
    /\ pc = "uploading"
    /\ mime' = MimeOf(uploaded.name)
    /\ status' = "AwaitingResponse"
    /\ pc' = "awaiting"
    /\ UNCHANGED <<uploaded, api_url, posted, outcome, health, healthView,
                   result, view, fault, lastHealth, fmtVars>>

CallProcessClaim(o) ==
    /\ pc = "awaiting"
    /\ outcome' = o
    /\ posted' = [url |-> api_url, filename |-> uploaded.name,
                  bytes |-> uploaded.bytes, mime |-> mime]
    /\ result' = process_claim(o)
    /\ IF result'.raised
       THEN /\ fault' = TRUE
            /\ pc' = "done"
            /\ status' \in StatusAfterFault
       ELSE /\ fault' = FALSE
            /\ pc' = "returned"
            /\ status' = status
    /\ UNCHANGED <<uploaded, api_url, mime, health, healthView, view,
                   lastHealth, fmtVars>>

UpdateStatus ==
    /\ pc = "returned"
    /\ IF result.value.t # "obj"
       THEN /\ fault' = TRUE
            /\ pc' = "done"
            /\ status' \in StatusAfterFault
       ELSE /\ fault' = FALSE
            /\ pc' = "updated"
            /\ status' = IF Truthy(Get(result.value.o, "success", JNull))
                         THEN "Complete" ELSE "Failed"
    /\ UNCHANGED <<uploaded, api_url, mime, posted, outcome, health, healthView,
                   result, view, lastHealth, fmtVars>>

RenderResults ==
    /\ pc = "updated"
    /\ view' = ResultViewOf(result.value)
    /\ fault' = view'.panels.fault
    /\ pc' = "done"
    /\ UNCHANGED <<uploaded, api_url, status, mime, posted, outcome, health,
                   healthView, result, lastHealth, fmtVars>>

Next ==
    \/ \E f \in Files : SelectFile(f)
    \/ RemoveFile
    \/ \E text \in UrlInputs : EditUrl(text)
    \/ \E o \in Outcomes(HealthBodies) : CheckHealth(o)
    \/ ClickProcess
    \/ BeginUpload
    \/ InferMime
    \/ \E o \in Outcomes(ClaimBodies) : CallProcessClaim(o)
    \/ UpdateStatus
    \/ RenderResults

Spec == Init /\ [][Next]_vars

(***************************************************************************)
(* Formatter runs: one call of severity_pill or display_results on an      *)
(* argument drawn from the input sets.                                     *)
(***************************************************************************)
FmtInit ==
    /\ UiInit
    /\ fmtOut = NotRun
    /\ \/ fmtMode = "severity" /\ fmtIn \in SeverityInputs
       \/ fmtMode = "display" /\ fmtIn \in DisplayInputs

CallSeverityPill ==
    /\ fmtMode = "severity"
    /\ fmtOut = NotRun
    /\ fmtOut' = severity_pill(fmtIn)
    /\ UNCHANGED <<uiVars, fmtMode, fmtIn>>

CallDisplayResults ==
    /\ fmtMode = "display"
    /\ fmtOut = NotRun
    /\ fmtOut' = display_results(fmtIn)
    /\ UNCHANGED <<uiVars, fmtMode, fmtIn>>

FmtNext == CallSeverityPill \/ CallDisplayResults

FmtSpec == FmtInit /\ [][FmtNext]_vars

(***************************************************************************)
(* Properties.                                                             *)
(***************************************************************************)
\* a 2xx response whose body parses as JSON
ParsedOk(o) == o.kind = "response" /\ o.code >= 200 /\ o.code < 300 /\ o.body = "json"

\* an object whose key k holds the value v and whose key error holds a string
TaggedError(r, k, v) ==
    /\ ~r.raised
    /\ r.value.t = "obj"
    /\ {k, "error"} \subseteq DOMAIN r.value.o
    /\ r.value.o[k] = v
    /\ r.value.o["error"].t = "str"

\* C1: neither client operation raises: for every outcome of the HTTP call
\* other than a 2xx response with a parseable body, check_health returns
\* status = "error" with an error message and process_claim returns
\* success = false with an error message; a 2xx response with a parseable
\* body yields the parsed body itself.
C1_ClientNeverRaises ==
    /\ health # NoValue =>
          IF ParsedOk(outcome)
          THEN ~health.raised /\ health.value = outcome.json
          ELSE TaggedError(health, "status", JStr(ErrorWord))
    /\ result # NoValue =>
          IF ParsedOk(outcome)
          THEN ~result.raised /\ result.value = outcome.json
          ELSE TaggedError(result, "success", JBool(FALSE))

\* both operations have met a body that is not JSON under a 2xx status
C1_Witness ==
    /\ result # NoValue
    /\ outcome.kind = "response" /\ outcome.code = 200 /\ outcome.body = "unparseable"
    /\ TaggedError(result, "success", JBool(FALSE))
    /\ lastHealth = "Unreachable"

ForwardEdges == { <<"Idle", "Uploading">>, <<"Uploading", "AwaitingResponse">>,
                  <<"AwaitingResponse", "Complete">>, <<"AwaitingResponse", "Failed">> }

\* C2: the status of an invocation changes only along Idle -> Uploading ->
\* AwaitingResponse -> {Complete | Failed}; the only other change is the
\* return to Idle made when a new script run starts after the invocation ended.
C2_ForwardOnly ==
    [][status' # status =>
          \/ <<status, status'>> \in ForwardEdges
          \/ status' = "Idle" /\ pc = "done" /\ pc' \in {"ready", "created"}]_vars

\* an invocation has gone through to Complete
C2_Witness == pc = "done" /\ status = "Complete" /\ ~fault

\* C3: every started invocation ends in Complete or Failed with no fault
\* raised in the view layer, whatever the backend answered.
C3_EndsWithoutFault == pc = "done" => status \in {"Complete", "Failed"} /\ ~fault

\* the success flag of an object, Absent when the key is missing
SuccessFlag(r) == Get(r.o, "success", Absent)

\* the view of a finished invocation whose flag is false or absent: Failed,
\* the error pill, the result's error entry or the generic text, no panel
FailedView(r) ==
    /\ status = "Failed"
    /\ view.pill = "Error"
    /\ view.message = (IF "error" \in DOMAIN r.o THEN r.o["error"] ELSE JStr(UnknownError))
    /\ ~view.panels.rendered
    /\ ~view.raw

FinishedWithObject == pc = "done" /\ ~result.raised /\ result.value.t = "obj"

C5_PostNeedsFile ==
    /\ pc \in {"created", "uploading", "awaiting", "returned", "updated"} => uploaded # NoFile
    /\ posted # NoPost => uploaded # NoFile /\ posted.filename = uploaded.name
    /\ ENABLED ClickProcess <=> (AtRest /\ uploaded # NoFile)

\* a POST has been issued right after a health check that failed
C5_Witness == posted # NoPost /\ lastHealth = "Unreachable" /\ uploaded # NoFile

\* what the claim expects of an input made of the word w in any letter case
\* between blanks
ExpectedPill(w, input) ==
    IF w \in {<<"s","e","v","e","r","e">>, <<"c","r","i","t","i","c","a","l">>,
              <<"h","i","g","h">>, <<"s","i","g","n","i","f","i","c","a","n","t">>}
    THEN [tier |-> "pill-bad", label |-> <<"H","i","g","h">>]
    ELSE IF w \in {<<"m","o","d","e","r","a","t","e">>, <<"m","e","d","i","u","m">>}
    THEN [tier |-> "pill-warn", label |-> <<"M","e","d","i","u","m">>]
    ELSE IF w \in {<<"m","i","n","o","r">>, <<"l","o","w">>}
    THEN [tier |-> "pill-ok", label |-> <<"L","o","w">>]
    ELSE IF input = <<>>
    THEN [tier |-> "pill-neutral", label |-> NA]
    ELSE [tier |-> "pill-neutral", label |-> input]

\* C6: severity classification is a lookup on the trimmed, lower-cased
\* input: the four High words, the two Medium words and the two Low words
\* give their tier in any letter case and between any blanks; a missing or
\* empty input gives "N/A" in the neutral tier; any other input is given
\* back unchanged in the neutral tier.
C6_SeverityLookup ==
    (fmtMode = "severity" /\ fmtOut # NotRun) =>
       /\ fmtIn = JNull => fmtOut = [tier |-> "pill-neutral", label |-> NA]
       /\ \A w \in SeverityWords : \A v \in CaseVariants(w) :
             /\ \A l \in 0..MaxPad : \A r \in 0..MaxPad :
                   fmtIn = JStr(Blanks(l) \o v \o Blanks(r))
                      => fmtOut = ExpectedPill(w, fmtIn.s)
             /\ fmtIn = JStr(<<"\t">> \o v \o <<"\n">>)
                      => fmtOut = ExpectedPill(w, fmtIn.s)

\* an upper-case High word between blanks has been classified
C6_Witness ==
    /\ fmtMode = "severity"
    /\ fmtIn = JStr(<<" ","C","R","I","T","I","C","A","L"," "," ">>)
    /\ fmtOut # NotRun
    /\ fmtOut.tier = "pill-bad"

\* the value found under key in a section of the payload, Absent when the
\* section or the key is missing
RawField(data, section, key) ==
    IF data.t = "obj" /\ section \in DOMAIN data.o /\ data.o[section].t = "obj"
    THEN Get(data.o[section].o, key, Absent)
    ELSE Absent

Displayed == fmtMode = "display" /\ fmtOut.rendered

FalseOrMissing == {Absent, JNull, JBool(FALSE), JInt(0), JFloat(0), JStr(<<>>),
                   JList(<<>>), EmptyObj}

PlainText(raw, cell) ==
    IF raw \in {Absent, JNull} THEN cell = NA
    ELSE cell = PyStr(raw)

PlainValue(raw, cell) ==
    IF raw \in {Absent, JNull} THEN cell = JStr(NA)
    ELSE cell = raw

\* C8: every optional field that is missing or null is displayed as "N/A",
\* never as a null placeholder, and a field with a value is displayed as
\* that value.
C8_FallbackEverywhere ==
    Displayed =>
       /\ PlainText(RawField(fmtIn, "vehicle_info", "make"), fmtOut.make)
       /\ PlainText(RawField(fmtIn, "vehicle_info", "model"), fmtOut.model)
       /\ PlainText(RawField(fmtIn, "vehicle_info", "color"), fmtOut.color)
       /\ PlainText(RawField(fmtIn, "vehicle_info", "year"), fmtOut.year)
       /\ PlainValue(RawField(fmtIn, "vehicle_info", "year"), fmtOut.metric_year)
       /\ PlainText(RawField(fmtIn, "incident_info", "date"), fmtOut.date)
       /\ PlainText(RawField(fmtIn, "incident_info", "location"), fmtOut.location)
       /\ PlainValue(RawField(fmtIn, "incident_info", "description"), fmtOut.description)
       /\ PlainValue(RawField(fmtIn, "metadata", "ocr_characters"), fmtOut.metric_ocr)
       /\ PlainValue(RawField(fmtIn, "metadata", "workflow"), fmtOut.metric_workflow)
       /\ PlainText(RawField(fmtIn, "metadata", "source_image"), fmtOut.source_image)
       /\ RawField(fmtIn, "damage_assessment", "severity") \in {Absent, JNull}
             => fmtOut.severity = [tier |-> "pill-neutral", label |-> NA]
       /\ RawField(fmtIn, "damage_assessment", "estimated_cost") \in {Absent, JNull}
             => fmtOut.cost = NA

IsDigit(c) == \E i \in 1..10 : DigitChars[i] = c

DigitValue(c) == (CHOOSE i \in 1..10 : DigitChars[i] = c) - 1

\* the natural number written by the digits of s, commas and the point skipped
RECURSIVE NumberIn(_)
NumberIn(s) ==
    IF s = <<>> THEN 0
    ELSE IF IsDigit(s[Len(s)])
         THEN NumberIn(SubSeq(s, 1, Len(s) - 1)) * 10 + DigitValue(s[Len(s)])
         ELSE NumberIn(SubSeq(s, 1, Len(s) - 1))

\* text is "$", an optional minus sign, digits in groups of three separated
\* by commas, a point and exactly two digits, and reads as h hundredths
IsCurrencyOf(text, h) ==
    /\ Len(text) >= 5
    /\ text[1] = "$"
    /\ LET signed == Tail(text)
           digs   == IF signed[1] = "-" THEN Tail(signed) ELSE signed
           n      == Len(digs)
       IN  /\ (signed[1] = "-") <=> (h < 0)
           /\ n >= 4
           /\ digs[n - 2] = "."
           /\ IsDigit(digs[n - 1]) /\ IsDigit(digs[n])
           /\ IsDigit(digs[1])
           /\ \A i \in 1..(n - 3) :
                 IF (n - 2 - i) % 4 = 0 THEN digs[i] = "," ELSE IsDigit(digs[i])
           /\ NumberIn(digs) = (IF h < 0 THEN -h ELSE h)

\* C9: the estimated cost shown is the currency form of a numeric value, the
\* raw value of a present value that is not a number (a string, a boolean),
\* and "N/A" for an absent value.
C9_CostByKind ==
    Displayed =>
       LET est == RawField(fmtIn, "damage_assessment", "estimated_cost")
       IN  CASE est.t = "int"   -> IsCurrencyOf(fmtOut.cost, est.n * 100)
             [] est.t = "float" -> IsCurrencyOf(fmtOut.cost, est.c)
             [] est.t = "bool"  -> fmtOut.cost = (IF est.b THEN TrueText ELSE FalseText)
             [] est.t = "str"   -> fmtOut.cost = est.s
             [] OTHER           -> fmtOut.cost = NA

\* the name ends in ".png" in some mix of letter cases
HasPngSuffix(name) ==
    /\ Len(name) >= 4
    /\ name[Len(name) - 3] = "."
    /\ name[Len(name) - 2] \in {"p", "P"}
    /\ name[Len(name) - 1] \in {"n", "N"}
    /\ name[Len(name)] \in {"g", "G"}

\* C10: the mime type of a submission is image/png exactly when the file
\* name ends in ".png" compared without regard to case and image/jpeg
\* otherwise, whatever the bytes are, and the name sent is the name as given.
C10_MimeFromName ==
    posted # NoPost =>
       /\ posted.mime = (IF HasPngSuffix(uploaded.name) THEN "image/png" ELSE "image/jpeg")
       /\ posted.filename = uploaded.name
       /\ posted.bytes = uploaded.bytes

\* an upper-case .PNG name holding JPEG bytes has been sent as image/png
C10_Witness ==
    /\ posted # NoPost
    /\ posted.filename = <<"a",".","P","N","G">>
    /\ posted.bytes = "jpeg-bytes"
    /\ posted.mime = "image/png"

====
